---- MODULE Spec2Model ----
(***************************************************************************)
(* A model of qc.rs (QuickCheck for Rust): the runner of src/qc.rs, the    *)
(* lazy candidate stream of src/lazy.rs and the Shrink instances of        *)
(* src/shrink.rs.                                                          *)
(*                                                                         *)
(* Values of every Rust type are records [t, n, kids]: t is the type or    *)
(* variant, n the number of a numeric value, kids the parts of a           *)
(* container.                                                              *)
(***************************************************************************)
EXTENDS Integers, Sequences, FiniteSets, TLC

\* ------------------------------------------------------------------ bounds
\* Largest uint the model draws for the Shrink instances (the table's last row
\* starts at 9; 16 and 17 are a power of two and its successor).
MaxN == 17
\* Largest SmallN the runner draws (the last row of its table starts at 11).
MaxSmallN == 12
\* The cfg.size of the drawn configs besides the default config's.
SmallSize == 1
\* Longest vector / string the model draws.
MaxLen == 3
\* Largest element of a drawn vector or tuple.
MaxElt == 3
\* Largest cfg.trials besides the default config's (i / 8 is 1 from trial 8 on).
MaxTrials == 9
\* Largest number of values on which a drawn predicate is false, besides the
\* threshold predicates and the constant-false one.
MaxFail == 1
\* The count of chain steps in hist.depth stops counting here.
MaxDepth == 4
\* The most push / push_thunk calls a caller makes on one stream.
MaxOps == 3
\* The count of None results in trace.nones stops counting here.
MaxNones == 2

\* ------------------------------------------------------------------ values
Val(t, n, kids) == [t |-> t, n |-> n, kids |-> kids]
Unit     == Val("()", 0, <<>>)
IntV(n)  == Val("int", n, <<>>)
Char(n)  == Val("char", n, <<>>)
Uint(n)  == Val("uint", n, <<>>)
U8(n)    == Val("u8", n, <<>>)
Vec(s)   == Val("vec", 0, s)
Str(s)   == Val("str", 0, s)
None     == Val("None", 0, <<>>)
Some(x)  == Val("Some", 0, <<x>>)
Ok(x)    == Val("Ok", 0, <<x>>)
Err(x)   == Val("Err", 0, <<x>>)
Left(x)  == Val("Left", 0, <<x>>)
Right(x) == Val("Right", 0, <<x>>)
Box(x)   == Val("~", 0, <<x>>)
Managed(x) == Val("@", 0, <<x>>)
ManagedMut(x) == Val("@mut", 0, <<x>>)
Cell(x)  == Val("Cell", 0, <<x>>)
EmptyCell == Val("EmptyCell", 0, <<>>)
\* A HashMap: its (key, value) pairs in the order its iterator yields them.
HashMap(s) == Val("HashMap", 0, s)
Tuple(s) == Val("tuple", 0, s)
\* NonEmptyVec<T>(~[T]) of qc.rs.
NonEmptyVec(s) == Val("NonEmptyVec", 0, s)

\* remove with the index off by one: the last index removes nothing.
remove_next(v, index) == SubSeq(v, 1, index + 1) \o SubSeq(v, index + 3, Len(v))

\* v.remove(index), index 0-based.
remove(v, index) == SubSeq(v, 1, index) \o SubSeq(v, index + 2, Len(v))

\* ------------------------------------------------------------------ lazy.rs
\* Lazy<T>: the materialised head and the queue of suspended producers.
new_from(v) == [head |-> v, thunks |-> <<>>]
new == new_from(<<>>)

\* A Thunk: the static function (k, f) and its moved-in upvar (idx, env, it).
Thunk(k, f, idx, env, it) == [k |-> k, f |-> f, idx |-> idx, env |-> env, it |-> it]

push(L, x) == [L EXCEPT !.head = Append(@, x)]

\* push_thunk putting the producer at the front of the queue.
push_thunk_front(L, th) == [L EXCEPT !.thunks = <<th>> \o @]

push_thunk(L, th) == [L EXCEPT !.thunks = Append(@, th)]

push_map(L, it, f) == push_thunk(L, Thunk("push_map", f, 0, Unit, it))

push_map_env(L, it, idx, env, f) == push_thunk(L, Thunk("push_map_env", f, idx, env, it))

\* v.move_iter().collect() into a HashMap: insert the pairs in order, a later
\* pair replacing the value of an equal key.
RECURSIVE insert_all(_, _)
insert_all(m, pairs) ==
    IF Len(pairs) = 0 THEN m
    ELSE LET kv == Head(pairs)
             at == {j \in 1..Len(m) : m[j].kids[1] = kv.kids[1]}
         IN  insert_all(IF at = {} THEN Append(m, kv)
                        ELSE [j \in 1..Len(m) |-> IF j \in at THEN kv ELSE m[j]],
                        Tail(pairs))

\* The static functions handed to push_map and push_map_env in shrink.rs.
Apply(f, x, idx, env) ==
    CASE f = "Some"       -> Some(x)
      [] f = "Ok"         -> Ok(x)
      [] f = "Err"        -> Err(x)
      [] f = "Left"       -> Left(x)
      [] f = "Right"      -> Right(x)
      [] f = "~"          -> Box(x)
      [] f = "@"          -> Managed(x)
      [] f = "@mut"       -> ManagedMut(x)
      [] f = "Cell"       -> Cell(x)
      [] f = "collect"    -> HashMap(insert_all(<<>>, x.kids))
      [] f = "from_chars" -> Str(x.kids)
      [] f = "pair_0"     -> Tuple(<<x, env>>)
      [] f = "pair_1"     -> Tuple(<<env, x>>)
      [] f = "tuple_set"  -> Tuple([env.kids EXCEPT ![idx + 1] = x])
      [] f = "vec_set"    -> Vec([env.kids EXCEPT ![idx + 1] = x])

RECURSIVE Lazy_next(_)
RECURSIVE eval(_, _)
RECURSIVE shrink(_)

\* The one element of a singleton set. {e(x) : x \in {arg}} computes arg once,
\* however often e uses x.
the(S) == CHOOSE y \in S : TRUE

\* Lazy::next: run queued producers while head is empty, then shift head.
Lazy_next(self) == the({
    IF Len(L.head) = 0 /\ Len(L.thunks) > 0
    THEN Lazy_next(eval(Head(L.thunks), [L EXCEPT !.thunks = Tail(@)]))
    ELSE IF Len(L.head) > 0
         THEN [some |-> TRUE, val |-> Head(L.head), L |-> [L EXCEPT !.head = Tail(@)]]
         ELSE [some |-> FALSE, val |-> Unit, L |-> L]
    : L \in {self}})

\* eval_map without the call that re-arms the producer.
eval_map_once(th, L) == the({
    IF r.some
    THEN push(L, Apply(th.f, r.val, th.idx, th.env))
    ELSE L
    : r \in {Lazy_next(th.it)}})

\* The body of the producer of push_map / push_map_env: pull one element of
\* the source, push f(x), re-enqueue with the rest of the source.
eval_map(th, L) == the({
    IF r.some
    THEN push_thunk(push(L, Apply(th.f, r.val, th.idx, th.env)), [th EXCEPT !.it = r.L])
    ELSE L
    : r \in {Lazy_next(th.it)}})

\* eval_vec_halves with the two pushes in the other order.
eval_vec_halves_swapped(th, L) ==
    LET v   == th.env.kids
        mid == Len(v) \div 2
        L1  == IF Len(v) > 2
               THEN push(push(L, Vec(SubSeq(v, mid + 1, Len(v)))), Vec(SubSeq(v, 1, mid)))
               ELSE L
    IN  push_thunk(L1, Thunk("vec_indices", "", 0, th.env, new))

\* The four nested producers of the ~[T] instance (shrink.rs 202-227).
eval_vec_halves(th, L) ==
    LET v   == th.env.kids
        mid == Len(v) \div 2
        L1  == IF Len(v) > 2
               THEN push(push(L, Vec(SubSeq(v, 1, mid))), Vec(SubSeq(v, mid + 1, Len(v))))
               ELSE L
    IN  push_thunk(L1, Thunk("vec_indices", "", 0, th.env, new))

\* push_index_thunks with the producers enqueued from the last index down.
RECURSIVE push_index_thunks_down(_, _, _)
push_index_thunks_down(L, v, index) ==
    IF index >= Len(v.kids) THEN L
    ELSE push_index_thunks_down(
             push_thunk(L, Thunk("vec_remove", "", Len(v.kids) - 1 - index, v, new)), v, index + 1)

RECURSIVE push_index_thunks(_, _, _)
push_index_thunks(L, v, index) ==
    IF index >= Len(v.kids) THEN L
    ELSE push_index_thunks(push_thunk(L, Thunk("vec_remove", "", index, v, new)), v, index + 1)

eval_vec_indices(th, L) == push_index_thunks(L, th.env, 0)

\* eval_vec_remove with the remove call left out.
eval_vec_remove_kept(th, L) ==
    push_thunk(push(L, Vec(th.env.kids)),
               Thunk("vec_shrink_elt", "", th.idx, th.env, new))

eval_vec_remove(th, L) ==
    push_thunk(push(L, Vec(remove(th.env.kids, th.idx))),
               Thunk("vec_shrink_elt", "", th.idx, th.env, new))

eval_vec_shrink_elt(th, L) ==
    push_map_env(L, shrink(th.env.kids[th.idx + 1]), th.idx, th.env, "vec_set")

\* A producer written by the caller (lazy.rs 134-139): its upvar th.it holds the
\* values it pushes and the producers it enqueues when it runs.
RECURSIVE push_all(_, _)
push_all(L, xs) == IF Len(xs) = 0 THEN L ELSE push_all(push(L, Head(xs)), Tail(xs))

RECURSIVE push_thunks(_, _)
push_thunks(L, ths) ==
    IF Len(ths) = 0 THEN L ELSE push_thunks(push_thunk(L, Head(ths)), Tail(ths))

eval_script(th, L) == push_thunks(push_all(L, th.it.head), th.it.thunks)

\* Thunk::eval: call the static function on the stream and the upvar.
eval(self, stream) == the({
    CASE th.k \in {"push_map", "push_map_env"} -> eval_map(th, L)
      [] th.k = "script"         -> eval_script(th, L)
      [] th.k = "vec_halves"     -> eval_vec_halves(th, L)
      [] th.k = "vec_indices"    -> eval_vec_indices(th, L)
      [] th.k = "vec_remove"     -> eval_vec_remove(th, L)
      [] th.k = "vec_shrink_elt" -> eval_vec_shrink_elt(th, L)
    : th \in {self}, L \in {stream}})

\* Iterating a stream to exhaustion: the candidates in delivery order.
RECURSIVE collect(_)
collect(pulled) == the({
    IF r.some THEN <<r.val>> \o collect(Lazy_next(r.L)) ELSE <<>>
    : r \in {pulled}})

Drain(L) == collect(Lazy_next(L))

\* ---------------------------------------------------------------- shrink.rs
\* div * two at the width of the integer type (u8 wraps at 2^8; the uints the
\* model draws stay far below the wrap of a machine word).
mul_two(div, t) == IF t = "u8" THEN (div * 2) % 256 ELSE div * 2

\* mpowers_loop without the overflow check: when the divisor has wrapped to 0
\* the division fails the task and no list is produced.
RECURSIVE mpowers_loop_unchecked(_, _, _, _)
mpowers_loop_unchecked(n, div, ret, t) ==
    IF div < n
    THEN IF div = 0 THEN <<>>
         ELSE mpowers_loop_unchecked(n, mul_two(div, t), Append(ret, n - (n \div div)), t)
    ELSE ret

\* The values the divisor takes in the loop of mpowers_of_two, the one that
\* ends the loop last.
RECURSIVE mpowers_divs(_, _, _)
mpowers_divs(n, div, t) ==
    IF div < n /\ div >= 2
    THEN <<div>> \o mpowers_divs(n, mul_two(div, t), t)
    ELSE <<div>>

RECURSIVE mpowers_loop(_, _, _, _)
mpowers_loop(n, div, ret, t) ==
    IF div < n /\ div >= 2
    THEN mpowers_loop(n, mul_two(div, t), Append(ret, n - (n \div div)), t)
    ELSE ret

mpowers_of_two(n, t) == mpowers_loop(n, 2, <<0>>, t)

\* shrink_uint with 0 among the candidates of 0.
shrink_uint_zero(n, t) ==
    CASE n = 0          -> <<0>>
      [] n = 1          -> <<0>>
      [] n = 2          -> <<0, 1>>
      [] n \in 3..8     -> <<n - 3, n - 2, n - 1>>
      [] OTHER          -> mpowers_of_two(n, t)

shrink_uint(n, t) ==
    CASE n = 0          -> <<>>
      [] n = 1          -> <<0>>
      [] n = 2          -> <<0, 1>>
      [] n \in 3..8     -> <<n - 3, n - 2, n - 1>>
      [] OTHER          -> mpowers_of_two(n, t)

shrink_num(v) == new_from([k \in 1..Len(shrink_uint(v.n, v.t)) |->
                              Val(v.t, shrink_uint(v.n, v.t)[k], <<>>)])

\* shrink_pair with the first coordinate's stream in both calls.
shrink_pair_same(v) ==
    push_map_env(push_map_env(new, shrink(v.kids[1]), 0, v.kids[2], "pair_0"),
                 shrink(v.kids[1]), 0, v.kids[1], "pair_1")

shrink_pair(v) ==
    push_map_env(push_map_env(new, shrink(v.kids[1]), 0, v.kids[2], "pair_0"),
                 shrink(v.kids[2]), 0, v.kids[1], "pair_1")

RECURSIVE shrink_tuple_from(_, _, _)
shrink_tuple_from(L, v, i) ==
    IF i >= Len(v.kids) THEN L
    ELSE shrink_tuple_from(push_map_env(L, shrink(v.kids[i + 1]), i, v, "tuple_set"), v, i + 1)

shrink_tuple(v) == shrink_tuple_from(new, v, 0)

\* shrink_option without the push of None.
shrink_option_no_none(v) ==
    IF v.t = "None" THEN new
    ELSE push_map(new, shrink(v.kids[1]), "Some")

shrink_option(v) ==
    IF v.t = "None" THEN new
    ELSE push_map(push(new, None), shrink(v.kids[1]), "Some")

shrink_wrapped(v) == push_map(new, shrink(v.kids[1]), v.t)

\* shrink_vec without the push of the empty vector.
shrink_vec_no_empty(v) ==
    IF Len(v.kids) = 0 THEN new
    ELSE push_thunk(new, Thunk("vec_halves", "", 0, v, new))

shrink_vec(v) ==
    IF Len(v.kids) = 0 THEN new
    ELSE push_thunk(push(new, Vec(<<>>)), Thunk("vec_halves", "", 0, v, new))

shrink_str(v) ==
    IF Len(v.kids) > 0 THEN push_map(new, shrink(Vec(v.kids)), "from_chars")
    ELSE new

shrink_cell(v) ==
    IF v.t = "Cell" THEN push_map(push(new, EmptyCell), shrink(v.kids[1]), "Cell")
    ELSE new

shrink_hashmap(v) ==
    IF Len(v.kids) > 0 THEN push_map(new, shrink(Vec(v.kids)), "collect")
    ELSE new

\* Shrink::shrink, by instance; the default method is the empty stream.
shrink(v) ==
    CASE v.t \in {"uint", "u8"}                   -> shrink_num(v)
      [] v.t = "tuple" /\ Len(v.kids) = 2         -> shrink_pair(v)
      [] v.t = "tuple" /\ Len(v.kids) > 2         -> shrink_tuple(v)
      [] v.t \in {"None", "Some"}                 -> shrink_option(v)
      [] v.t \in {"Ok", "Err", "Left", "Right", "~", "@", "@mut"} -> shrink_wrapped(v)
      [] v.t = "str"                              -> shrink_str(v)
      [] v.t \in {"Cell", "EmptyCell"}             -> shrink_cell(v)
      [] v.t = "HashMap"                          -> shrink_hashmap(v)
      [] v.t = "vec"                              -> shrink_vec(v)
      [] OTHER                                    -> new

\* -------------------------------------------------------------------- qc.rs
SmallN(n) == Val("SmallN", n, <<>>)

\* QConfig and the default config value.
QConfig(trials, size, verbose, grow) ==
    [trials |-> trials, size |-> size, verbose |-> verbose, grow |-> grow]

\* The default config with the trial count of the specification's table.
config_50 == QConfig(50, 8, FALSE, TRUE)

config == QConfig(25, 8, FALSE, TRUE)

\* The field setters: each returns the record with one field replaced.
QConfig_size(c, x) == [c EXCEPT !.size = x]

QConfig_trials(c, x) == [c EXCEPT !.trials = x]

QConfig_grow(c, x) == [c EXCEPT !.grow = x]

QConfig_verbose(c, x) == [c EXCEPT !.verbose = x]

Min(a, b) == IF a < b THEN a ELSE b

\* small_n(size): an Exp1 draw scaled by size and clamped to 16 * size; the
\* model draws every outcome up to MaxSmallN.
small_n(size) == 0..Min(16 * size, MaxSmallN)

\* arbitrary::<SmallN>(sz): the values one call can return.
arbitrary(sz) == {SmallN(k) : k \in small_n(sz)}

\* shrink_SmallN with no candidate for 1.
shrink_SmallN_one(n) ==
    CASE n \in 0..1   -> <<>>
      [] n = 2        -> <<1, 0>>
      [] n \in 3..10  -> <<n - 1, n - 2, n - 3>>
      [] OTHER        -> <<n - 1, n - 2, n - 5, n - (n \div 8), n - (n \div 4), n \div 2>>

\* Arbitrary::shrink for SmallN: a vec, the smallest shrink last.
shrink_SmallN(n) ==
    CASE n = 0        -> <<>>
      [] n = 1        -> <<0>>
      [] n = 2        -> <<1, 0>>
      [] n \in 3..10  -> <<n - 1, n - 2, n - 3>>
      [] OTHER        -> <<n - 1, n - 2, n - 5, n - (n \div 8), n - (n \div 4), n \div 2>>

\* shrink_u8 with the last row of the table taken from 3 on: n - n/8 is n
\* itself below 8.
shrink_u8_wide(n) ==
    CASE n = 0        -> <<>>
      [] n = 1        -> <<0>>
      [] n = 2        -> <<1, 0>>
      [] OTHER        -> <<n - 1, n - 2, n - (n \div 8), n - (n \div 4), n \div 2>>

\* Arbitrary::shrink for u8: the same table at its own place in the source.
shrink_u8(n) ==
    CASE n = 0        -> <<>>
      [] n = 1        -> <<0>>
      [] n = 2        -> <<1, 0>>
      [] n \in 3..10  -> <<n - 1, n - 2, n - 3>>
      [] OTHER        -> <<n - 1, n - 2, n - 5, n - (n \div 8), n - (n \div 4), n \div 2>>

RECURSIVE Arbitrary_shrink(_)

\* concat!(v, s, ...): the vecs one after the other.
RECURSIVE concat(_)
concat(vs) == IF Len(vs) = 0 THEN <<>> ELSE Head(vs) \o concat(Tail(vs))

\* arb_tuple!: per coordinate, in coordinate order, the tuple with that
\* coordinate replaced by each of its shrinks.
arb_tuple_shrink(v) ==
    concat([j \in 1..Len(v.kids) |->
               [k \in 1..Len(Arbitrary_shrink(v.kids[j])) |->
                   Tuple([v.kids EXCEPT ![j] = Arbitrary_shrink(v.kids[j])[k]])]])

\* arb_vec_shrink without the removals of single elements.
arb_vec_shrink_no_remove(v) ==
    concat([j \in 1..Len(v) |->
               [k \in 1..Len(Arbitrary_shrink(v[j])) |->
                   [v EXCEPT ![j] = Arbitrary_shrink(v[j])[k]]]])
    \o (IF Len(v) > 2
        THEN <<SubSeq(v, Len(v) \div 2 + 1, Len(v)), SubSeq(v, 1, Len(v) \div 2)>>
        ELSE <<>>)

\* Arbitrary::shrink for ~[T], on the elements: per index the vec with the
\* element replaced by each of its shrinks, then the vec without it; at the
\* end, for more than two elements, the second half and the first half.
arb_vec_shrink(v) ==
    concat([j \in 1..Len(v) |->
               [k \in 1..Len(Arbitrary_shrink(v[j])) |->
                   [v EXCEPT ![j] = Arbitrary_shrink(v[j])[k]]]
               \o <<remove(v, j - 1)>>])
    \o (IF Len(v) > 2
        THEN <<SubSeq(v, Len(v) \div 2 + 1, Len(v)), SubSeq(v, 1, Len(v) \div 2)>>
        ELSE <<>>)

\* vmap!(r for x in J): the vec of r over J, in order; here r wraps x as t.
vmap(t, J) == [k \in 1..Len(J) |-> Val(t, 0, J[k])]

\* Arbitrary::shrink for Option: the shrinks of the content in Some, then None.
arb_option_shrink(v) ==
    IF v.t = "Some"
    THEN [k \in 1..Len(Arbitrary_shrink(v.kids[1])) |-> Some(Arbitrary_shrink(v.kids[1])[k])]
         \o <<None>>
    ELSE <<>>

\* Arbitrary::shrink for Result and for ~T: the shrinks of the content, wrapped.
arb_wrapped_shrink(v) ==
    [k \in 1..Len(Arbitrary_shrink(v.kids[1])) |-> Val(v.t, 0, <<Arbitrary_shrink(v.kids[1])[k]>>)]

nonempty(s) == Len(s) > 0

\* arb_nonempty_shrink without the filter.
arb_nonempty_shrink_all(v) == arb_vec_shrink(v)

\* Arbitrary::shrink for NonEmptyVec: the shrinks of the vec that are not empty.
arb_nonempty_shrink(v) == SelectSeq(arb_vec_shrink(v), nonempty)

\* Arbitrary::shrink, by instance; the default method is the empty vec.
Arbitrary_shrink(v) ==
    CASE v.t = "SmallN" -> [k \in 1..Len(shrink_SmallN(v.n)) |-> SmallN(shrink_SmallN(v.n)[k])]
      [] v.t = "u8"     -> [k \in 1..Len(shrink_u8(v.n)) |-> U8(shrink_u8(v.n)[k])]
      [] v.t = "tuple"  -> arb_tuple_shrink(v)
      [] v.t = "vec"    -> vmap("vec", arb_vec_shrink(v.kids))
      [] v.t = "str"    -> vmap("str", arb_vec_shrink(v.kids))
      [] v.t = "NonEmptyVec" -> vmap("NonEmptyVec", arb_nonempty_shrink(v.kids))
      [] v.t \in {"Some", "None"}    -> arb_option_shrink(v)
      [] v.t \in {"Ok", "Err", "~"}  -> arb_wrapped_shrink(v)
      [] OTHER          -> <<>>

\* trial_size with the remainder in place of the quotient.
trial_size_rem(c, k) == c.size + (IF c.grow THEN k % 8 ELSE 0)

\* The size argument of trial i: cfg.size + if cfg.grow { i / 8 } else { 0 }.
trial_size(c, k) == c.size + (IF c.grow THEN k \div 8 ELSE 0)

\* The values of the runner's type A, and the predicates drawn over them: a
\* predicate is the set of values on which it returns false.
Domain == {SmallN(k) : k \in 0..MaxSmallN}

\* The predicates x < t.
Thresholds == {{v \in Domain : v.n >= t} : t \in 0..MaxSmallN}

Props == {S \in SUBSET Domain : Cardinality(S) <= MaxFail} \cup Thresholds

Configs ==
    {config} \cup
    {QConfig_grow(QConfig_size(QConfig_trials(config, t), SmallSize), g) :
        t \in 0..MaxTrials, g \in BOOLEAN}

VARIABLES
    fn,        \* the entry point that runs
    cfg,       \* its QConfig
    failing,   \* prop: the values on which it returns false
    pc,        \* the position in the running function
    i,         \* the trial loop's index
    n,         \* quick_check_occurs' counter n
    value,     \* the generated value of the trial
    sz,        \* the size argument of the latest generate call
    cur,       \* quick_shrink's parameter value
    shrinks,   \* quick_shrink's vec of candidates still to pop
    result,    \* what quick_shrink returned
    outcome,   \* "running", "returned" (normally) or "failed" (fail!)
    hist,      \* history: counts of calls and what the trials saw
    cands,     \* the candidates of the Shrink instance under test
    lazy,      \* the Lazy stream a caller builds and pulls by hand
    trace      \* history of that stream: what was pushed, enqueued, run, delivered

vars == <<fn, cfg, failing, pc, i, n, value, sz, cur, shrinks, result, outcome, hist, cands,
          lazy, trace>>

prop(v) == v \notin failing

Trace0 ==
    [pushes |-> <<>>,     \* the values pushed onto head, in push order
     enqs |-> <<>>,       \* the producers enqueued, in enqueue order
     runs |-> <<>>,       \* the producers invoked, in invocation order
     delivered |-> <<>>,  \* the values next() returned, in order
     nones |-> 0,         \* calls of next() that returned None since the latest push
     ops |-> 0,           \* the caller's push and push_thunk calls
     src |-> [head |-> <<>>, thunks |-> <<>>],  \* the source handed to push_map
     f |-> ""]            \* the function handed to push_map

Hist0 ==
    [calls |-> 0,        \* invocations of prop
     gens |-> 0,         \* calls of generate
     prevSz |-> 0,       \* the size argument of the generate call before the latest
     falsified |-> 0,    \* the trial (1-based) whose value prop rejected, 0 if none
     firstTrue |-> 0,    \* the trial (1-based) whose value prop first accepted, 0 if none
     start |-> Unit,     \* the value quick_shrink was entered with from outside
     depth |-> 0,        \* invocations of quick_shrink
     pred |-> [k |-> "", t |-> 0],  \* the closure handed to a direct quick_shrink call
     shrunk |-> FALSE]   \* quick_shrink has returned

RunnerInit ==
    /\ fn \in {"quick_check", "quick_check_occurs"}
    /\ cfg \in Configs
    /\ failing \in Props
    /\ pc = "loop"
    /\ i = 0
    /\ n = 0
    /\ value = Unit
    /\ sz = 0
    /\ cur = Unit
    /\ shrinks = <<>>
    /\ result = Unit
    /\ outcome = "running"
    /\ hist = Hist0
    /\ cands = <<>>
    /\ lazy = new
    /\ trace = Trace0

\* A direct call quick_shrink(cfg, v, prop).
ShrinkCallInit ==
    /\ fn = "quick_shrink"
    /\ cfg \in {config}
    /\ failing \in Props
    /\ pc = "shrink"
    /\ i = 0
    /\ n = 0
    /\ value = Unit
    /\ sz = 0
    /\ cur \in Domain
    /\ shrinks = Arbitrary_shrink(cur)
    /\ result = Unit
    /\ outcome = "running"
    /\ hist = [Hist0 EXCEPT !.start = cur, !.depth = 1]
    /\ cands = <<>>
    /\ lazy = new
    /\ trace = Trace0

Init == RunnerInit \/ ShrinkCallInit

\* qc_generate with the range one trial too long.
qc_generate_inclusive ==
    /\ fn = "quick_check" /\ pc = "loop" /\ i <= cfg.trials
    /\ \E v \in arbitrary(trial_size(cfg, i)) : value' = v
    /\ sz' = trial_size(cfg, i)
    /\ hist' = [hist EXCEPT !.gens = @ + 1, !.prevSz = sz]
    /\ pc' = "prop"
    /\ UNCHANGED <<lazy, trace, fn, cfg, failing, i, n, cur, shrinks, result, outcome, cands>>

\* quick_check, line 98: the trial draws its value.
qc_generate ==
    /\ fn = "quick_check" /\ pc = "loop" /\ i < cfg.trials
    /\ \E v \in arbitrary(trial_size(cfg, i)) : value' = v
    /\ sz' = trial_size(cfg, i)
    /\ hist' = [hist EXCEPT !.gens = @ + 1, !.prevSz = sz]
    /\ pc' = "prop"
    /\ UNCHANGED <<lazy, trace, fn, cfg, failing, i, n, cur, shrinks, result, outcome, cands>>

\* qc_prop with the minimisation left out: fail! right after the falsification.
qc_prop_no_shrink ==
    /\ fn = "quick_check" /\ pc = "prop"
    /\ IF prop(value)
       THEN /\ i' = i + 1
            /\ pc' = "loop"
            /\ hist' = [hist EXCEPT !.calls = @ + 1]
       ELSE /\ pc' = "fail"
            /\ hist' = [hist EXCEPT !.calls = @ + 1, !.falsified = i + 1]
            /\ UNCHANGED i
    /\ UNCHANGED <<lazy, trace, fn, cfg, failing, n, value, sz, cur, shrinks, result, outcome, cands>>

\* quick_check, lines 102-107: prop on the value; on false enter quick_shrink
\* with the copy.
qc_prop ==
    /\ fn = "quick_check" /\ pc = "prop"
    /\ IF prop(value)
       THEN /\ i' = i + 1
            /\ pc' = "loop"
            /\ hist' = [hist EXCEPT !.calls = @ + 1]
            /\ UNCHANGED <<cur, shrinks>>
       ELSE /\ pc' = "shrink"
            /\ cur' = value
            /\ shrinks' = Arbitrary_shrink(value)
            /\ hist' = [hist EXCEPT !.calls = @ + 1, !.falsified = i + 1,
                                    !.start = value, !.depth = 1]
            /\ UNCHANGED i
    /\ UNCHANGED <<lazy, trace, fn, cfg, failing, n, value, sz, result, outcome, cands>>

\* qc_pass with the loop one trial short.
qc_pass_early ==
    /\ fn = "quick_check" /\ pc = "loop" /\ i + 1 >= cfg.trials
    /\ outcome' = "returned"
    /\ pc' = "done"
    /\ UNCHANGED <<lazy, trace, fn, cfg, failing, i, n, value, sz, cur, shrinks, result, hist, cands>>

\* quick_check, lines 110-114: the loop ran out, return normally.
qc_pass ==
    /\ fn = "quick_check" /\ pc = "loop" /\ i >= cfg.trials
    /\ outcome' = "returned"
    /\ pc' = "done"
    /\ UNCHANGED <<lazy, trace, fn, cfg, failing, i, n, value, sz, cur, shrinks, result, hist, cands>>

\* quick_check, line 108: fail! with the value quick_shrink returned.
qc_fail ==
    /\ fn = "quick_check" /\ pc = "fail"
    /\ outcome' = "failed"
    /\ pc' = "done"
    /\ UNCHANGED <<lazy, trace, fn, cfg, failing, i, n, value, sz, cur, shrinks, result, hist, cands>>

\* quick_shrink_step taking the candidates from the front of the vec.
quick_shrink_step_front ==
    /\ pc = "shrink"
    /\ IF Len(shrinks) = 0
       THEN /\ result' = cur
            /\ hist' = [hist EXCEPT !.shrunk = TRUE]
            /\ IF fn = "quick_check"
               THEN pc' = "fail" /\ UNCHANGED outcome
               ELSE pc' = "done" /\ outcome' = "returned"
            /\ UNCHANGED <<cur, shrinks>>
       ELSE LET elt == shrinks[1]
            IN  /\ IF ~prop(elt)
                   THEN /\ cur' = elt
                        /\ shrinks' = Arbitrary_shrink(elt)
                        /\ hist' = [hist EXCEPT !.calls = @ + 1, !.depth = @ + 1]
                   ELSE /\ shrinks' = Tail(shrinks)
                        /\ hist' = [hist EXCEPT !.calls = @ + 1]
                        /\ UNCHANGED cur
                /\ UNCHANGED <<pc, result, outcome>>
    /\ UNCHANGED <<lazy, trace, fn, cfg, failing, i, n, value, sz, cands>>

\* quick_shrink_step with a break where the loop goes on: the first candidate
\* that passes prop ends the search.
quick_shrink_step_break ==
    /\ pc = "shrink"
    /\ IF Len(shrinks) = 0 \/ prop(shrinks[Len(shrinks)])
       THEN /\ result' = cur
            /\ hist' = [hist EXCEPT !.shrunk = TRUE,
                                    !.calls = IF Len(shrinks) = 0 THEN @ ELSE @ + 1]
            /\ IF fn = "quick_check"
               THEN pc' = "fail" /\ UNCHANGED outcome
               ELSE pc' = "done" /\ outcome' = "returned"
            /\ UNCHANGED <<cur, shrinks>>
       ELSE /\ cur' = shrinks[Len(shrinks)]
            /\ shrinks' = Arbitrary_shrink(shrinks[Len(shrinks)])
            /\ hist' = [hist EXCEPT !.calls = @ + 1, !.depth = @ + 1]
            /\ UNCHANGED <<pc, result, outcome>>
    /\ UNCHANGED <<lazy, trace, fn, cfg, failing, i, n, value, sz, cands>>

\* quick_shrink, lines 119-133: one turn of the loop. An empty vec ends the
\* call with value; otherwise pop the last candidate and, if prop is false on
\* it, recurse on it.
quick_shrink_step ==
    /\ pc = "shrink"
    /\ IF Len(shrinks) = 0
       THEN /\ result' = cur
            /\ hist' = [hist EXCEPT !.shrunk = TRUE]
            /\ IF fn = "quick_check"
               THEN pc' = "fail" /\ UNCHANGED outcome
               ELSE pc' = "done" /\ outcome' = "returned"
            /\ UNCHANGED <<cur, shrinks>>
       ELSE LET elt == shrinks[Len(shrinks)]
            IN  /\ IF ~prop(elt)
                   THEN /\ cur' = elt
                        /\ shrinks' = Arbitrary_shrink(elt)
                        /\ hist' = [hist EXCEPT !.calls = @ + 1, !.depth = @ + 1]
                   ELSE /\ shrinks' = SubSeq(shrinks, 1, Len(shrinks) - 1)
                        /\ hist' = [hist EXCEPT !.calls = @ + 1]
                        /\ UNCHANGED cur
                /\ UNCHANGED <<pc, result, outcome>>
    /\ UNCHANGED <<lazy, trace, fn, cfg, failing, i, n, value, sz, cands>>

\* quick_check_occurs, lines 139-140: count the trial and draw its value.
occurs_generate ==
    /\ fn = "quick_check_occurs" /\ pc = "loop" /\ i < cfg.trials
    /\ n' = n + 1
    /\ \E v \in arbitrary(trial_size(cfg, i)) : value' = v
    /\ sz' = trial_size(cfg, i)
    /\ hist' = [hist EXCEPT !.gens = @ + 1, !.prevSz = sz]
    /\ pc' = "prop"
    /\ UNCHANGED <<lazy, trace, fn, cfg, failing, i, cur, shrinks, result, outcome, cands>>

\* occurs_prop without the break: the loop goes on after a success.
occurs_prop_no_break ==
    /\ fn = "quick_check_occurs" /\ pc = "prop"
    /\ i' = i + 1
    /\ pc' = "loop"
    /\ hist' = [hist EXCEPT !.calls = @ + 1,
                            !.firstTrue = IF @ = 0 /\ prop(value) THEN i + 1 ELSE @]
    /\ UNCHANGED <<lazy, trace, fn, cfg, failing, n, value, sz, cur, shrinks, result, outcome, cands>>

\* quick_check_occurs, lines 141-146: prop on the value; break on true.
occurs_prop ==
    /\ fn = "quick_check_occurs" /\ pc = "prop"
    /\ IF prop(value)
       THEN /\ pc' = "after"
            /\ hist' = [hist EXCEPT !.calls = @ + 1,
                                    !.firstTrue = IF @ = 0 THEN i + 1 ELSE @]
            /\ UNCHANGED i
       ELSE /\ i' = i + 1
            /\ pc' = "loop"
            /\ hist' = [hist EXCEPT !.calls = @ + 1]
    /\ UNCHANGED <<lazy, trace, fn, cfg, failing, n, value, sz, cur, shrinks, result, outcome, cands>>

\* quick_check_occurs, lines 148-150: after the loop, fail! if n >= cfg.trials.
occurs_after ==
    /\ fn = "quick_check_occurs"
    /\ pc = "after" \/ (pc = "loop" /\ i >= cfg.trials)
    /\ outcome' = IF n >= cfg.trials THEN "failed" ELSE "returned"
    /\ pc' = "done"
    /\ UNCHANGED <<lazy, trace, fn, cfg, failing, i, n, value, sz, cur, shrinks, result, hist, cands>>

\* ------------------------------------------------ the Shrink instances alone
Elts == {Uint(k) : k \in 0..MaxElt}

Chars == {Char(97), Char(98)}

SeqsOver(S) == UNION {[1..k -> S] : k \in 0..MaxLen}

Uints == {Uint(k) : k \in 0..MaxN}

Options(S) == {None} \cup {Some(x) : x \in S}

\* The (key, value) sequences of the drawn maps: at most two entries, keys distinct.
Pairs == {Tuple(<<k, v>>) : k \in Elts, v \in Elts}

MapEntries ==
    {<<>>} \cup {<<a>> : a \in Pairs}
    \cup {s \in [1..2 -> Pairs] : s[1].kids[1] # s[2].kids[1]}

\* The orders in which the iterator of a HashMap equal to v may yield its pairs.
iter_orders(v) ==
    IF v.t = "HashMap"
    THEN {HashMap([k \in 1..Len(v.kids) |-> v.kids[p[k]]]) : p \in Permutations(1..Len(v.kids))}
    ELSE {v}

ShrinkInputs ==
    Uints
    \cup {HashMap(s) : s \in MapEntries}
    \cup {Cell(x) : x \in Uints} \cup {EmptyCell, Cell(Vec(<<Uint(2)>>))}
    \cup {Managed(x) : x \in Elts} \cup {ManagedMut(x) : x \in Elts}
    \cup {U8(k) : k \in 0..255}
    \cup {IntV(0), Char(97), Unit}
    \cup {Vec(s) : s \in SeqsOver(Elts)}
    \cup {Str(s) : s \in SeqsOver(Chars)}
    \cup Options(Uints)
    \cup {Some(Vec(<<Some(Str(<<Char(97), Char(98)>>)), None>>))}
    \cup {Vec(s) : s \in [1..2 -> Options(Elts)]}
    \cup {Vec(<<Vec(<<Uint(1)>>), Vec(<<>>)>>), Vec(<<Uint(9), Uint(16)>>)}
    \cup {Ok(x) : x \in Uints} \cup {Err(x) : x \in Uints}
    \cup {Left(x) : x \in Elts} \cup {Right(x) : x \in Elts}
    \cup {Box(x) : x \in Uints}
    \cup {Tuple(<<a, b>>) : a \in Elts, b \in Elts}
    \cup {Tuple(<<Uint(9), Uint(16)>>), Tuple(<<Vec(<<Uint(1)>>), Some(Uint(2))>>)}
    \cup {Tuple(<<a, b, c>>) : a \in Elts, b \in Elts, c \in {IntV(0), Uint(2)}}
    \cup {Tuple(<<Uint(1), Uint(0), Uint(2), Uint(1)>>)}

ShrinkInit ==
    /\ fn = "shrink"
    /\ cfg = config
    /\ failing = {}
    /\ pc = "start"
    /\ i = 0
    /\ n = 0
    /\ value \in ShrinkInputs
    /\ sz = 0
    /\ cur = Unit
    /\ shrinks = <<>>
    /\ result = Unit
    /\ outcome = "running"
    /\ hist = [Hist0 EXCEPT !.start = value]
    /\ cands = <<>>
    /\ lazy = new
    /\ trace = Trace0

\* value.shrink(), iterated to exhaustion.
shrink_all ==
    /\ fn = "shrink" /\ pc = "start"
    /\ cands' = Drain(shrink(value))
    /\ pc' = "shrunk"
    /\ UNCHANGED <<lazy, trace, fn, cfg, failing, i, n, value, sz, cur, shrinks, result, outcome, hist>>

\* Pull the first candidate of value.shrink() and go on from it; an exhausted
\* stream ends the chain.
shrink_first ==
    /\ fn = "shrink" /\ pc = "shrunk"
    /\ LET r == Lazy_next(shrink(value))
       IN  IF r.some
           THEN /\ value' \in iter_orders(r.val)
                /\ pc' = "start"
                /\ hist' = [hist EXCEPT !.depth = Min(@ + 1, MaxDepth)]
           ELSE /\ pc' = "done"
                /\ UNCHANGED <<value, hist>>
    /\ cands' = <<>>
    /\ UNCHANGED <<lazy, trace, fn, cfg, failing, i, n, sz, cur, shrinks, result, outcome>>

ShrinkNext == shrink_all \/ shrink_first

ShrinkSpec == ShrinkInit /\ [][ShrinkNext]_vars

\* One thread runs the chain: a step that can be taken is taken.
FairShrinkSpec == ShrinkSpec /\ WF_vars(ShrinkNext)

\* ------------------------------------------- quick_shrink called directly
\* The closures test_qc_shrink hands to quick_shrink: constant false, x < t,
\* at most t occurrences of 'a', a sum equal to t.
RECURSIVE sum_n(_)
sum_n(kids) == IF Len(kids) = 0 THEN 0 ELSE Head(kids).n + sum_n(Tail(kids))

count_a(kids) == Cardinality({j \in 1..Len(kids) : kids[j] = Char(97)})

Pred(k, t) == [k |-> k, t |-> t]

Holds(p, w) ==
    CASE p.k = "false" -> FALSE
      [] p.k = "lt"    -> w.n < p.t
      [] p.k = "count" -> count_a(w.kids) <= p.t
      [] p.k = "sum"   -> sum_n(w.kids) = p.t

\* Every value quick_shrink can come to hand to prop when started from S.
RECURSIVE Closure(_)
Closure(S) ==
    LET T == S \cup UNION {{Arbitrary_shrink(v)[k] : k \in 1..Len(Arbitrary_shrink(v))} : v \in S}
    IN  IF T = S THEN S ELSE Closure(T)

\* The closure p as the set of values on which it returns false.
Fails(p, start) == {w \in Closure({start}) : ~Holds(p, w)}

hi == Str(<<Char(104), Char(105)>>)

\* The vector of test_qc_shrink: [0, 1, 1, 2, 1, 0, 1, 0, 1].
test_vec == <<IntV(0), IntV(1), IntV(1), IntV(2), IntV(1), IntV(0), IntV(1), IntV(0), IntV(1)>>

\* The sequences handed to quick_shrink under the constant-false closure: of
\* atomic ints, of SmallN, and test_vec.
CallSeqs == SeqsOver({IntV(0), IntV(1)}) \cup SeqsOver({SmallN(0), SmallN(2)}) \cup {test_vec}

Calls ==
    {[start |-> v, pred |-> Pred("false", 0)] :
        v \in {None, Some(Uint(5)), Some(Some(U8(3))), Some(Box(SmallN(2))), Some(Ok(U8(2))),
               Some(Vec(<<Some(hi), None, Some(Str(<<>>))>>))}
              \cup {Some(SmallN(k)) : k \in 0..MaxSmallN}
              \cup {SmallN(k) : k \in 0..MaxSmallN} \cup {SmallN(100)}
              \cup {Vec(s) : s \in CallSeqs}
              \cup {NonEmptyVec(s) : s \in CallSeqs \ {<<>>}}}
    \cup {[start |-> Val(ty, m, <<>>), pred |-> Pred("lt", t)] :
            ty \in {"uint", "u8", "SmallN"}, m \in 0..MaxN, t \in 0..MaxN}
    \cup {[start |-> Val(ty, 0, s), pred |-> Pred("count", t)] :
            ty \in {"str", "vec"}, t \in 0..1,
            s \in SeqsOver(Chars) \cup {<<Char(98), Char(97), Char(97), Char(98), Char(97)>>}}
    \cup {[start |-> Tuple(<<SmallN(1), SmallN(10), SmallN(3)>>), pred |-> Pred("sum", t)] :
            t \in 0..1}

\* quick_shrink(config, start, pred) with a closure that is false on start.
QuickShrinkInit ==
    /\ fn = "quick_shrink"
    /\ cfg = config
    /\ \E call \in Calls :
          /\ ~Holds(call.pred, call.start)
          /\ cur = call.start
          /\ failing = Fails(call.pred, call.start)
          /\ hist = [Hist0 EXCEPT !.start = call.start, !.depth = 1, !.pred = call.pred]
    /\ pc = "shrink"
    /\ i = 0
    /\ n = 0
    /\ value = Unit
    /\ sz = 0
    /\ shrinks = Arbitrary_shrink(cur)
    /\ result = Unit
    /\ outcome = "running"
    /\ cands = <<>>
    /\ lazy = new
    /\ trace = Trace0

MinimiseInit == QuickShrinkInit \/ ShrinkInit

MinimiseNext == quick_shrink_step \/ shrink_all \/ shrink_first

\* The minimiser of qc.rs called directly, and the Shrink instances alone.
MinimiseSpec == MinimiseInit /\ [][MinimiseNext]_vars

\* ------------------------------------ quick_shrink under any closure at all
\* Start values of the built-in instances of Arbitrary with a shrink of their
\* own, alone and nested.
AnyStarts ==
    {U8(k) : k \in 0..6} \cup {SmallN(11)}
    \cup {Vec(<<SmallN(2), SmallN(1)>>), Vec(<<SmallN(1), SmallN(0), SmallN(1)>>),
          Str(<<Char(97), Char(98), Char(97)>>),
          NonEmptyVec(<<SmallN(1), SmallN(1)>>),
          Tuple(<<SmallN(2), U8(1)>>), Tuple(<<SmallN(1), Some(U8(1)), IntV(0)>>),
          None, Some(SmallN(3)), Some(Vec(<<U8(1)>>)),
          Ok(SmallN(2)), Err(U8(2)), Box(SmallN(3))}

\* quick_shrink(config, start, prop) with prop any total deterministic closure
\* that is false on start: any set of values of the closure on which it is
\* false.
AnyPredInit ==
    /\ fn = "quick_shrink"
    /\ cfg = config
    /\ cur \in AnyStarts
    /\ failing \in {S \cup {cur} : S \in SUBSET Closure({cur})}
    /\ hist = [Hist0 EXCEPT !.start = cur, !.depth = 1]
    /\ pc = "shrink"
    /\ i = 0
    /\ n = 0
    /\ value = Unit
    /\ sz = 0
    /\ shrinks = Arbitrary_shrink(cur)
    /\ result = Unit
    /\ outcome = "running"
    /\ cands = <<>>
    /\ lazy = new
    /\ trace = Trace0

AnyPredNext == quick_shrink_step

\* One thread runs quick_shrink: a turn of its loop that can be taken is taken.
AnyPredSpec == AnyPredInit /\ [][AnyPredNext]_vars /\ WF_vars(AnyPredNext)

\* ------------------------------------------- a Lazy stream driven by its caller
\* The values of test_lazy_list.
Items == {IntV(3), IntV(4), IntV(5)}

Script(vals, ths) == Thunk("script", "", 0, Unit, [head |-> vals, thunks |-> ths])

Leaf(x) == Script(<<x>>, <<>>)

\* The producers a caller enqueues: one that does nothing, one that pushes a
\* value, the nested pair of test_lazy_list (push k, then enqueue a producer
\* that pushes k + 1), and one that only enqueues two more.
Producers ==
    {Script(<<>>, <<>>)}
    \cup {Leaf(x) : x \in Items}
    \cup {Script(<<IntV(k)>>, <<Leaf(IntV(k + 1))>>) : k \in 3..4}
    \cup {Script(<<>>, <<Leaf(IntV(3)), Script(<<>>, <<Leaf(IntV(4))>>)>>)}

\* The sources handed to push_map: vectors turned streams, and the streams of
\* shrink with producers of their own.
Sources ==
    {new_from(s) : s \in UNION {[1..k -> Items] : k \in 0..3}}
    \cup {shrink(Uint(9)), shrink(Some(Uint(2))), shrink(Vec(<<Uint(2), Uint(1)>>)),
          shrink(Tuple(<<Uint(2), Uint(1)>>))}

\* The non-empty sequences whose shrink stream a caller pulls from.
PullInputs ==
    {Vec(s) : s \in SeqsOver({Uint(1), Uint(2)}) \ {<<>>}}
    \cup {Str(s) : s \in SeqsOver(Chars) \ {<<>>}}

InLazy == fn \in {"lazy", "push_map", "pull"}

\* Lazy::create with the caller's closure still to run, a stream built by one
\* push_map call, or the stream shrink returns for a non-empty sequence.
LazyInit ==
    /\ \/ /\ fn = "lazy"
          /\ lazy = new
          /\ trace = Trace0
          /\ value = Unit
       \/ /\ fn = "push_map"
          /\ \E src \in Sources, f \in {"Some", "~"} :
                /\ lazy = push_map(new, src, f)
                /\ trace = [Trace0 EXCEPT !.src = src, !.f = f, !.enqs = lazy.thunks]
          /\ value = Unit
       \/ /\ fn = "pull"
          /\ value \in PullInputs
          /\ lazy = shrink(value)
          /\ trace = [Trace0 EXCEPT !.pushes = lazy.head, !.enqs = lazy.thunks]
    /\ cfg = config
    /\ failing = {}
    /\ pc = "idle"
    /\ i = 0
    /\ n = 0
    /\ sz = 0
    /\ cur = Unit
    /\ shrinks = <<>>
    /\ result = Unit
    /\ outcome = "running"
    /\ hist = Hist0
    /\ cands = <<>>

\* The caller pushes a value.
lz_push ==
    /\ fn = "lazy" /\ pc = "idle" /\ trace.ops < MaxOps
    /\ \E x \in Items :
          /\ lazy' = push(lazy, x)
          /\ trace' = [trace EXCEPT !.pushes = Append(@, x), !.nones = 0, !.ops = @ + 1]
    /\ UNCHANGED <<fn, cfg, failing, pc, i, n, value, sz, cur, shrinks, result, outcome,
                   hist, cands>>

\* The caller enqueues a producer.
lz_push_thunk ==
    /\ fn = "lazy" /\ pc = "idle" /\ trace.ops < MaxOps
    /\ \E th \in Producers :
          /\ lazy' = push_thunk(lazy, th)
          /\ trace' = [trace EXCEPT !.enqs = Append(@, th), !.nones = 0, !.ops = @ + 1]
    /\ UNCHANGED <<fn, cfg, failing, pc, i, n, value, sz, cur, shrinks, result, outcome,
                   hist, cands>>

\* The caller calls next().
lz_next_call ==
    /\ InLazy /\ pc = "idle"
    /\ pc' = "next"
    /\ UNCHANGED <<lazy, trace, fn, cfg, failing, i, n, value, sz, cur, shrinks, result,
                   outcome, hist, cands>>

\* lz_next_eval without the test of head: next() runs a queued producer with
\* values still waiting.
lz_next_eval_eager ==
    /\ InLazy /\ pc = "next"
    /\ Len(lazy.thunks) > 0
    /\ lazy' = eval(Head(lazy.thunks), [lazy EXCEPT !.thunks = Tail(@)])
    /\ trace' = [trace EXCEPT
                    !.runs = Append(@, Head(lazy.thunks)),
                    !.pushes = @ \o SubSeq(lazy'.head, Len(lazy.head) + 1, Len(lazy'.head)),
                    !.enqs = @ \o SubSeq(lazy'.thunks, Len(lazy.thunks), Len(lazy'.thunks))]
    /\ UNCHANGED <<fn, cfg, failing, pc, i, n, value, sz, cur, shrinks, result, outcome,
                   hist, cands>>

\* next(), lines 58-61: one turn of the while loop shifts a producer off the
\* queue and runs it on the stream.
lz_next_eval ==
    /\ InLazy /\ pc = "next"
    /\ Len(lazy.head) = 0 /\ Len(lazy.thunks) > 0
    /\ lazy' = eval(Head(lazy.thunks), [lazy EXCEPT !.thunks = Tail(@)])
    /\ trace' = [trace EXCEPT
                    !.runs = Append(@, Head(lazy.thunks)),
                    !.pushes = @ \o lazy'.head,
                    !.enqs = @ \o SubSeq(lazy'.thunks, Len(lazy.thunks), Len(lazy'.thunks))]
    /\ UNCHANGED <<fn, cfg, failing, pc, i, n, value, sz, cur, shrinks, result, outcome,
                   hist, cands>>

\* lz_next_return with an if for the while: next() may return with producers
\* still queued.
lz_next_return_early ==
    /\ InLazy /\ pc = "next"
    /\ IF Len(lazy.head) > 0
       THEN /\ lazy' = [lazy EXCEPT !.head = Tail(@)]
            /\ trace' = [trace EXCEPT !.delivered = Append(@, Head(lazy.head))]
       ELSE /\ trace' = [trace EXCEPT !.nones = Min(@ + 1, MaxNones)]
            /\ UNCHANGED lazy
    /\ pc' = "idle"
    /\ UNCHANGED <<fn, cfg, failing, i, n, value, sz, cur, shrinks, result, outcome,
                   hist, cands>>

\* next(), lines 62-66: after the loop, shift the first value off head, or
\* return None.
lz_next_return ==
    /\ InLazy /\ pc = "next"
    /\ ~(Len(lazy.head) = 0 /\ Len(lazy.thunks) > 0)
    /\ IF Len(lazy.head) > 0
       THEN /\ lazy' = [lazy EXCEPT !.head = Tail(@)]
            /\ trace' = [trace EXCEPT !.delivered = Append(@, Head(lazy.head))]
       ELSE /\ trace' = [trace EXCEPT !.nones = Min(@ + 1, MaxNones)]
            /\ UNCHANGED lazy
    /\ pc' = "idle"
    /\ UNCHANGED <<fn, cfg, failing, i, n, value, sz, cur, shrinks, result, outcome,
                   hist, cands>>

LazyNext == lz_push \/ lz_push_thunk \/ lz_next_call \/ lz_next_eval \/ lz_next_return

LazySpec == LazyInit /\ [][LazyNext]_vars

Next ==
    \/ qc_generate
    \/ qc_prop
    \/ qc_pass
    \/ qc_fail
    \/ quick_shrink_step
    \/ occurs_generate
    \/ occurs_prop
    \/ occurs_after

Spec == Init /\ [][Next]_vars
\* quick_check alone, on the threshold predicates and those false on at most
\* one value.
QcInit ==
    /\ RunnerInit
    /\ fn = "quick_check"
    /\ failing \in Thresholds \cup {{}} \cup {{v} : v \in Domain}

QcNext == qc_generate \/ qc_prop \/ qc_pass \/ qc_fail \/ quick_shrink_step

\* One thread runs quick_check to its end: a step that can be taken is taken.
QcFairSpec == QcInit /\ [][QcNext]_vars /\ WF_vars(QcNext)

\* ------------------------------------------------------------------ claims
InQuickCheck == fn = "quick_check"

InOccurs == fn = "quick_check_occurs"

\* The candidates of a value, as a set.
Candidates(v) == {Arbitrary_shrink(v)[k] : k \in 1..Len(Arbitrary_shrink(v))}

\* C1. Minimality: when quick_shrink, entered with a value on which prop is
\* false, has returned r (directly, or as the witness of a failing
\* quick_check), prop is false on r and true on every candidate of shrink(r).
C1_Minimality ==
    (hist.shrunk /\ hist.start \in failing) =>
        /\ result \in failing
        /\ \A c \in Candidates(result) : c \notin failing
        /\ (InQuickCheck /\ outcome = "failed") => hist.falsified # 0

\* C1 witness: a failing quick_check whose minimisation recursed twice and ended
\* on a value that still has candidates, all of which pass.
C1_Witness ==
    /\ InQuickCheck /\ outcome = "failed"
    /\ hist.depth >= 3
    /\ result # hist.start
    /\ Candidates(result) # {}

\* C2. Runner soundness and trial count: quick_check returns normally only
\* after exactly cfg.trials generate calls and cfg.trials prop calls, none of
\* which returned false; while no value was rejected, every prop call is on
\* the value generated just before it.
C2_Soundness ==
    InQuickCheck =>
        /\ outcome = "returned" =>
              /\ hist.calls = cfg.trials
              /\ hist.gens = cfg.trials
              /\ hist.falsified = 0
        /\ hist.falsified = 0 =>
              hist.gens = hist.calls + (IF pc = "prop" THEN 1 ELSE 0)
        /\ hist.falsified # 0 => outcome # "returned"

\* C2 witness: a normal return after several trials of a predicate that is
\* false somewhere.
C2_Witness ==
    /\ InQuickCheck /\ outcome = "returned"
    /\ cfg.trials >= 3
    /\ failing # {}

\* C3 as claimed: quick_check_occurs returns normally iff prop was true on one
\* of the trials (the last one included) and fails iff it was false on all.
C3_OccursIff ==
    (InOccurs /\ outcome # "running") =>
        /\ (outcome = "returned") <=> (hist.firstTrue # 0)
        /\ (outcome = "failed") <=> (hist.firstTrue = 0 /\ hist.calls = cfg.trials)

\* C4. quick_check_occurs stops at the first success: once prop was true on
\* trial k, prop has been invoked k times, k values have been generated, the
\* loop index stays at trial k and quick_shrink was never entered.
C4_StopsAtFirst ==
    (InOccurs /\ hist.firstTrue # 0) =>
        /\ hist.calls = hist.firstTrue
        /\ hist.gens = hist.firstTrue
        /\ n = hist.firstTrue
        /\ i = hist.firstTrue - 1
        /\ hist.depth = 0
        /\ pc \in {"after", "done"}

\* C4 witness: the run is over and the first success was neither the first
\* nor the last trial.
C4_Witness ==
    /\ InOccurs /\ pc = "done"
    /\ hist.firstTrue >= 2
    /\ hist.firstTrue < cfg.trials

\* C5. Ordering after a falsification in quick_check: no further trial and no
\* further generate call; quick_shrink is entered with the rejected value;
\* failure is signalled only after quick_shrink returned; a run that
\* minimised never returns normally, and it does fail in the end.
C5_Ordering ==
    /\ [][(InQuickCheck /\ hist.falsified # 0) =>
             /\ hist'.gens = hist.gens
             /\ i' = i
             /\ value' = value
             /\ outcome' # "returned"]_vars
    /\ [](InQuickCheck =>
             /\ hist.falsified # 0 => hist.start = value /\ hist.depth >= 1
             /\ outcome = "failed" => hist.falsified # 0 /\ hist.shrunk
             /\ hist.depth >= 1 => hist.falsified # 0)
    /\ ((InQuickCheck /\ hist.falsified # 0) ~> (outcome = "failed"))

\* C5 witness: failure signalled after a minimisation that recursed, with
\* trials left over.
C5_Witness ==
    /\ InQuickCheck /\ outcome = "failed"
    /\ hist.shrunk /\ hist.depth >= 2
    /\ hist.falsified < cfg.trials

\* C6. Size schedule: the size argument of the generate call of trial i is
\* cfg.size + i / 8 with grow and cfg.size without, in quick_check and in
\* quick_check_occurs; with grow it never decreases from one call to the next.
C6_SizeSchedule ==
    (fn \in {"quick_check", "quick_check_occurs"} /\ hist.gens >= 1) =>
        /\ pc = "prop" => sz = cfg.size + (IF cfg.grow THEN i \div 8 ELSE 0)
        /\ (cfg.grow /\ hist.gens >= 2) => hist.prevSz <= sz
        /\ (~cfg.grow /\ hist.gens >= 2) => hist.prevSz = sz

\* C6 witness: the ninth trial of a growing quick_check_occurs, one size up.
C6_Witness ==
    /\ InOccurs /\ pc = "prop"
    /\ cfg.grow /\ i = 8
    /\ sz = cfg.size + 1
    /\ hist.prevSz = cfg.size

\* A run of quick_check under the default config on an always-true property.
DefaultRun == InQuickCheck /\ cfg = config /\ failing = {} /\ outcome = "returned"

\* C7 as claimed: the default config has trials = 50, size = 8, grow, not
\* verbose, and the always-true property is invoked exactly 50 times.
C7_Default50 ==
    DefaultRun =>
        /\ cfg.trials = 50 /\ cfg.size = 8 /\ cfg.grow /\ ~cfg.verbose
        /\ hist.calls = 50

\* C7 amended: the default config has trials = 25, size = 8, grow, not
\* verbose, and the always-true property is invoked exactly 25 times.
C7_Default25 ==
    DefaultRun =>
        /\ cfg.trials = 25 /\ cfg.size = 8 /\ cfg.grow /\ ~cfg.verbose
        /\ hist.calls = 25

\* C7 witness: such a run has returned.
C7_Witness == DefaultRun /\ hist.gens = 25

\* Eq of two values of one type: maps are equal when they hold the same pairs.
same_value(a, b) ==
    IF a.t = "HashMap" /\ b.t = "HashMap"
    THEN {a.kids[k] : k \in 1..Len(a.kids)} = {b.kids[k] : k \in 1..Len(b.kids)}
    ELSE a = b

\* C8. Shrink strictness: no candidate of shrink(v) equals v.
C8_Strict ==
    (fn = "shrink" /\ pc = "shrunk") =>
        \A k \in 1..Len(cands) : ~same_value(cands[k], value)

\* C8 witness: a vector of shrinkable elements with its halves, removals and
\* element replacements delivered.
C8_Witness ==
    /\ fn = "shrink" /\ pc = "shrunk"
    /\ value.t = "vec" /\ Len(value.kids) = 3
    /\ value.kids[1].t = "uint" /\ value.kids[1].n > 0
    /\ Len(cands) > 6

\* C9. Shrink progress: the chain of first candidates from any start value
\* ends at a value whose stream is empty.
C9_Progress == <>(pc = "done")

\* C9 witness: a chain of at least three steps has ended.
C9_Witness ==
    /\ fn = "shrink" /\ pc = "done"
    /\ hist.depth >= 3

\* The table as the claim states it for n >= 9: after 0, n - n / d for
\* d = 2, 4, 8, ... up to the divisor that gives n - 1.
RECURSIVE halving_steps(_, _)
halving_steps(m, d) ==
    IF m \div d <= 1 THEN <<m - 1>>
    ELSE <<m - (m \div d)>> \o halving_steps(m, 2 * d)

claimed_table(m) ==
    CASE m = 0      -> <<>>
      [] m = 1      -> <<0>>
      [] m = 2      -> <<0, 1>>
      [] m \in 3..8 -> <<m - 3, m - 2, m - 1>>
      [] OTHER      -> <<0>> \o halving_steps(m, 2)

\* C10 as claimed: shrink(n) for u8 / uint yields exactly the table's list,
\* which for n >= 9 ends with n - 1.
C10_Table ==
    (fn = "shrink" /\ pc = "shrunk" /\ value.t \in {"uint", "u8"}) =>
        [k \in 1..Len(cands) |-> cands[k].n] = claimed_table(value.n)

\* C15. LazyStream delivery order: the values are delivered in the order they
\* were pushed and the producers run in the order they were enqueued, those a
\* running producer enqueues behind all already queued (the pushes are the
\* deliveries followed by head, the enqueued producers are the run ones
\* followed by the queue); and whenever a producer is invoked, every value
\* pushed before has been delivered.
C15_DeliveryOrder ==
    /\ [](InLazy =>
             /\ trace.pushes = trace.delivered \o lazy.head
             /\ trace.enqs = trace.runs \o lazy.thunks)
    /\ [][(InLazy /\ Len(trace'.runs) > Len(trace.runs)) =>
             trace.delivered = trace.pushes]_vars

\* C15 witness: the run of test_lazy_list: 3 pushed by hand, 4 by a producer,
\* 5 by the producer that one enqueued, delivered in that order, then None.
C15_Witness ==
    /\ fn = "lazy" /\ pc = "idle"
    /\ trace.delivered = <<IntV(3), IntV(4), IntV(5)>>
    /\ Len(trace.runs) = 2 /\ trace.ops = 2
    /\ trace.nones = 1

\* C16. LazyStream exhaustion: when next() has returned None, head and the
\* producer queue are both empty; and from then on, until something is pushed,
\* next() returns None again, runs no producer and leaves the stream as it is.
C16_Exhaustion ==
    /\ [](InLazy /\ trace.nones > 0 =>
             /\ lazy.head = <<>> /\ lazy.thunks = <<>>
             /\ ~Lazy_next(lazy).some)
    /\ [][(InLazy /\ trace.nones > 0 /\ trace'.nones > 0) =>
             /\ lazy' = lazy
             /\ trace'.runs = trace.runs
             /\ trace'.delivered = trace.delivered
             /\ (pc = "next" /\ pc' = "idle") => trace'.nones = Min(trace.nones + 1, MaxNones)]_vars

\* C16 witness: a stream that ran producers and delivered values has returned
\* None twice in a row.
C16_Witness ==
    /\ fn = "lazy" /\ pc = "idle"
    /\ trace.nones = 2
    /\ Len(trace.runs) >= 2
    /\ Len(trace.delivered) >= 2

\* The source after k elements were drawn from it.
RECURSIVE Advance(_, _)
Advance(src, k) == IF k = 0 THEN src ELSE Advance(Lazy_next(src).L, k - 1)

\* C17. push_map equivalence: a stream built by push_map(source, f) alone
\* delivers f(x_1), ..., f(x_m) in the order the source yields x_1 .. x_m and
\* then None; a next() that returned a value ran the producer once and drew
\* one element, so after k values the stream is push_map of the source less
\* its first k elements.
C17_PushMap ==
    fn = "push_map" =>
        LET xs == Drain(trace.src)
            k  == Len(trace.delivered)
        IN  /\ k <= Len(xs)
            /\ \A j \in 1..k : trace.delivered[j] = Apply(trace.f, xs[j], 0, Unit)
            /\ trace.nones > 0 => k = Len(xs)
            /\ pc = "idle" =>
                  /\ Len(trace.runs) = k + (IF trace.nones > 0 THEN 1 ELSE 0)
                  /\ trace.nones = 0 => lazy = push_map(new, Advance(trace.src, k), trace.f)

\* C17 witness: a source with producers of its own, mapped and pulled to
\* exhaustion, four values or more.
C17_Witness ==
    /\ fn = "push_map" /\ pc = "idle"
    /\ trace.src.thunks # <<>>
    /\ trace.nones > 0
    /\ Len(trace.delivered) >= 4

\* The candidates of shrink(v), as a set.
StreamSet(v) == {Drain(shrink(v))[k] : k \in 1..Len(Drain(shrink(v)))}

\* The coordinates (1-based) in which the tuple c differs from the tuple v.
Changed(c, v) == {j \in 1..Len(v.kids) : c.kids[j] # v.kids[j]}

ShrunkTuple == fn = "shrink" /\ pc = "shrunk" /\ value.t = "tuple"

\* C11. Tuple shrink is coordinate-wise: every candidate of shrink on a tuple
\* is a tuple of the same arity that differs from it in exactly one
\* coordinate, by a candidate of that coordinate's shrink; and every candidate
\* of every coordinate's shrink appears in that coordinate of some candidate.
C11_CoordinateWise ==
    ShrunkTuple =>
        /\ \A k \in 1..Len(cands) :
              /\ cands[k].t = "tuple" /\ Len(cands[k].kids) = Len(value.kids)
              /\ Cardinality(Changed(cands[k], value)) = 1
              /\ \A j \in Changed(cands[k], value) :
                    cands[k].kids[j] \in StreamSet(value.kids[j])
        /\ \A j \in 1..Len(value.kids) : \A c \in StreamSet(value.kids[j]) :
              \E k \in 1..Len(cands) : cands[k] = Tuple([value.kids EXCEPT ![j] = c])

\* C11 witness: a triple with two shrinkable coordinates and one atomic, all
\* its candidates delivered.
C11_Witness ==
    /\ ShrunkTuple /\ Len(value.kids) = 3
    /\ value.kids[1].n = 3 /\ value.kids[2].n = 2 /\ value.kids[3].t = "int"
    /\ Len(cands) = 5

\* C12 as claimed: in the stream of a tuple every candidate that replaces
\* coordinate i is delivered before any that replaces a coordinate j > i.
C12_CoordinateOrder ==
    ShrunkTuple =>
        \A k \in 1..Len(cands) : \A l \in (k + 1)..Len(cands) :
            \A a \in Changed(cands[k], value) : \A b \in Changed(cands[l], value) : a <= b

ShrunkSeq == fn = "shrink" /\ pc = "shrunk" /\ value.t \in {"vec", "str"}

\* C14. Sequence shrink never grows: no candidate of shrink on a sequence is
\* longer than the sequence, and none equals it.
C14_NeverGrows ==
    ShrunkSeq =>
        \A k \in 1..Len(cands) :
            /\ cands[k].t = value.t
            /\ Len(cands[k].kids) <= Len(value.kids)
            /\ cands[k] # value

\* C14 witness: a vector of three elements whose stream delivered candidates
\* of every length from 0 to 3.
C14_Witness ==
    /\ ShrunkSeq /\ Len(value.kids) = 3
    /\ \A m \in 0..3 : \E k \in 1..Len(cands) : Len(cands[k].kids) = m

Minimised(k) == fn = "quick_shrink" /\ pc = "done" /\ hist.pred.k = k

\* C13. Option shrink: shrink(None) yields nothing; shrink(Some(x)) yields None
\* first and then Some(x') for each x' of shrink(x), in the order of shrink(x);
\* and quick_shrink with the constant-false closure started from a Some
\* returns None.
C13_Option ==
    /\ (fn = "shrink" /\ pc = "shrunk" /\ value.t = "None") => cands = <<>>
    /\ (fn = "shrink" /\ pc = "shrunk" /\ value.t = "Some") =>
          cands = <<None>> \o [k \in 1..Len(Drain(shrink(value.kids[1]))) |->
                                  Some(Drain(shrink(value.kids[1]))[k])]
    /\ (Minimised("false") /\ hist.start.t = "Some") => result = None

\* C13 witness: the stream of a Some whose content has five candidates.
C13_Witness ==
    /\ fn = "shrink" /\ pc = "shrunk" /\ value.t = "Some"
    /\ Len(cands) = 6
    /\ cands[6].kids[1].n = value.kids[1].n - 1

\* C18 as claimed: quick_shrink on an unsigned integer n with the closure
\* x < t, n >= t, returns t.
C18_Boundary ==
    (Minimised("lt") /\ hist.start.t \in {"uint", "u8"}) =>
        result = Val(hist.start.t, hist.pred.t, <<>>)

\* C19. Minimising an occurrence count: quick_shrink on a string or vector of
\* chars with more than k occurrences of 'a' and the closure 'a occurs at most
\* k times' returns k + 1 copies of 'a' and nothing else.
C19_Occurrences ==
    Minimised("count") =>
        result = Val(hist.start.t, 0, [j \in 1..(hist.pred.t + 1) |-> Char(97)])

\* C19 witness: from "baaba" with k = 1 the minimiser has returned "aa" after
\* three or more recursions.
C19_Witness ==
    /\ Minimised("count") /\ hist.pred.t = 1
    /\ hist.start = Str(<<Char(98), Char(97), Char(97), Char(98), Char(97)>>)
    /\ result = Str(<<Char(97), Char(97)>>)
    /\ hist.depth >= 3

TripleRun ==
    /\ Minimised("sum") /\ hist.pred.t = 0
    /\ hist.start = Tuple(<<SmallN(1), SmallN(10), SmallN(3)>>)

\* C20 as claimed: quick_shrink from (SmallN(1), SmallN(10), SmallN(3)) with
\* the closure a + b + c == 0 returns (SmallN(0), SmallN(0), SmallN(1)).
C20_Triple001 == TripleRun => result = Tuple(<<SmallN(0), SmallN(0), SmallN(1)>>)

\* C20 amended: that call returns (SmallN(1), SmallN(0), SmallN(0)).
C20_Triple100 == TripleRun => result = Tuple(<<SmallN(1), SmallN(0), SmallN(0)>>)

\* C20 witness: that call has returned.
C20_Witness == TripleRun /\ hist.shrunk /\ hist.depth >= 5

\* C21. Constant-false minimisation of SmallN: quick_shrink on SmallN(n) with
\* the closure that is false on every input returns SmallN(0).
C21_SmallNZero ==
    (Minimised("false") /\ hist.start.t = "SmallN") => result = SmallN(0)

\* C21 witness: the call on SmallN(100) has returned after five recursions or
\* more.
C21_Witness ==
    /\ Minimised("false") /\ hist.start = SmallN(100)
    /\ hist.depth >= 5

\* C22. Constant-false minimisation of a sequence: the stream of the empty
\* sequence is empty, the first candidate of a non-empty sequence is the empty
\* sequence, and quick_shrink with the constant-false closure returns the
\* empty sequence from every start sequence.
C22_SeqEmpty ==
    /\ (ShrunkSeq /\ Len(value.kids) = 0) => cands = <<>>
    /\ (ShrunkSeq /\ Len(value.kids) > 0) =>
          Len(cands) > 0 /\ cands[1] = Val(value.t, 0, <<>>)
    /\ (Minimised("false") /\ hist.start.t = "vec") => result = Vec(<<>>)

\* C22 witness: the call on test_vec has returned the empty vector.
C22_Witness ==
    /\ Minimised("false") /\ hist.start = Vec(test_vec)
    /\ result = Vec(<<>>)
    /\ hist.depth >= 4

\* C23. NonEmptyVec: no candidate of its shrink is empty, and quick_shrink with
\* the constant-false closure returns a NonEmptyVec of length 1.
C23_NonEmpty ==
    /\ (fn = "quick_shrink" /\ cur.t = "NonEmptyVec") =>
          \A k \in 1..Len(shrinks) :
              shrinks[k].t = "NonEmptyVec" /\ Len(shrinks[k].kids) > 0
    /\ (Minimised("false") /\ hist.start.t = "NonEmptyVec") =>
          result.t = "NonEmptyVec" /\ Len(result.kids) = 1

\* C23 witness: the call on the NonEmptyVec of test_vec has returned.
C23_Witness ==
    /\ Minimised("false") /\ hist.start = NonEmptyVec(test_vec)
    /\ Len(result.kids) = 1
    /\ hist.depth >= 4

ZeroTrials == InQuickCheck /\ cfg.trials = 0

\* C24. Zero trials: with cfg.trials = 0 quick_check generates no value, never
\* invokes prop, never enters quick_shrink, never fails, and returns normally,
\* whatever the predicate.
C24_ZeroTrials ==
    /\ [](ZeroTrials =>
             /\ hist.gens = 0 /\ hist.calls = 0 /\ hist.depth = 0
             /\ value = Unit
             /\ outcome # "failed")
    /\ (ZeroTrials ~> (outcome = "returned"))

\* C24 witness: quick_check with zero trials has returned on the predicate
\* that is false on every value.
C24_Witness ==
    /\ ZeroTrials /\ failing = Domain
    /\ outcome = "returned" /\ pc = "done"

\* The two halves of a sequence value, as values of its type.
FirstHalf(v) == Val(v.t, 0, SubSeq(v.kids, 1, Len(v.kids) \div 2))

SecondHalf(v) == Val(v.t, 0, SubSeq(v.kids, Len(v.kids) \div 2 + 1, Len(v.kids)))

\* The candidates that are shorter than the sequence: all but the replacements.
Shorter == {k \in 1..Len(cands) : Len(cands[k].kids) < Len(value.kids)}

\* How many halves the stream emits.
Halves == IF Len(value.kids) > 2 THEN 2 ELSE 0

\* C25 as claimed: for length > 2 the candidates right after the empty
\* sequence are the second half and then the first half; for length <= 2 no
\* half is emitted.
C25_SecondThenFirst ==
    ShrunkSeq =>
        /\ Len(value.kids) > 2 =>
              cands[2] = SecondHalf(value) /\ cands[3] = FirstHalf(value)
        /\ Len(value.kids) \in 1..2 => Cardinality(Shorter) = 1 + Len(value.kids)

\* C25 amended: for length > 2 the candidates right after the empty sequence
\* are the first half and then the second half; for length <= 2 no half is
\* emitted (the shorter candidates are the empty sequence and the removals).
C25_FirstThenSecond ==
    ShrunkSeq =>
        /\ Len(value.kids) > 2 =>
              /\ cands[2] = FirstHalf(value) /\ cands[3] = SecondHalf(value)
              /\ Cardinality(Shorter) = 3 + Len(value.kids)
        /\ Len(value.kids) \in 1..2 => Cardinality(Shorter) = 1 + Len(value.kids)

\* C25 witness: the stream of a vector of three distinct elements, whose
\* halves differ.
C25_Witness ==
    /\ ShrunkSeq /\ Len(value.kids) = 3
    /\ value.kids[1] # value.kids[2] /\ value.kids[2] # value.kids[3]
    /\ Len(cands[2].kids) = 1 /\ Len(cands[3].kids) = 2

\* C26. Sequence shrink removals: after the empty sequence and the halves come
\* the sequence without element 0, without element 1, ..., without the last
\* element, in this order, and every candidate after them is a replacement
\* (of the length of the sequence).
C26_Removals ==
    (ShrunkSeq /\ Len(value.kids) > 0) =>
        /\ Len(cands) >= 1 + Halves + Len(value.kids)
        /\ \A j \in 0..(Len(value.kids) - 1) :
              cands[2 + Halves + j] = Val(value.t, 0, remove(value.kids, j))
        /\ \A k \in (2 + Halves + Len(value.kids))..Len(cands) :
              Len(cands[k].kids) = Len(value.kids)

\* C26 witness: a vector of three shrinkable elements, with removals that
\* differ and replacements after them.
C26_Witness ==
    /\ ShrunkSeq /\ Len(value.kids) = 3
    /\ value.kids[1].n = 1 /\ value.kids[2].n = 2 /\ value.kids[3].n = 3
    /\ Len(cands) = 12

\* C27 as claimed: the replacements come index by index: none at an index
\* j > i is delivered before all those at index i.
C27_IndexMajor ==
    ShrunkSeq =>
        \A k \in 1..Len(cands) : \A l \in (k + 1)..Len(cands) :
            (k \notin Shorter /\ l \notin Shorter) =>
                \A a \in Changed(cands[k], value) : \A b \in Changed(cands[l], value) : a <= b

\* C30. Overflow safety of the 8-bit shrink: for every u8 n in 9..255 the
\* loop ends after at most seven divisions (on the wrapped divisor 0 exactly
\* when n > 128), every divisor it divides by is one of 2..128, and the list is
\* strictly increasing, starts at 0 and stays below n.
C30_U8Overflow ==
    (fn = "shrink" /\ pc = "shrunk" /\ value.t = "u8" /\ value.n \in 9..255) =>
        LET divs == mpowers_divs(value.n, 2, "u8")
            last == divs[Len(divs)]
        IN  /\ Len(divs) <= 8
            /\ \A k \in 1..(Len(divs) - 1) : divs[k] \in 2..128
            /\ (last = 0) = (value.n > 128)
            /\ last = 0 \/ last >= value.n
            /\ Len(cands) = Len(divs)
            /\ cands[1] = U8(0)
            /\ \A k \in 1..Len(cands) : cands[k].t = "u8" /\ cands[k].n < value.n
            /\ \A k \in 1..(Len(cands) - 1) : cands[k].n < cands[k + 1].n

\* C30 witness: the stream of 255u8, whose divisor wraps from 128 to 0, with
\* the eight candidates 0, 128, 192, ..., 254 delivered.
C30_Witness ==
    /\ fn = "shrink" /\ pc = "shrunk" /\ value = U8(255)
    /\ mpowers_divs(255, 2, "u8")[8] = 0
    /\ Len(cands) = 8 /\ cands[2] = U8(128) /\ cands[8] = U8(254)

\* C29. Laziness of producers: every producer enqueued is either still queued
\* or has run, once; next() runs a producer only with head empty, and the one
\* it runs is the first of the queue, taken off it before it runs; and after
\* the first candidate (the empty sequence) of a non-empty sequence's stream
\* has been pulled no producer has run. (The stream of a string is a push_map
\* over the stream of its chars: there the first pull runs the push_map
\* producer, and no producer of the sequence's stream.)
C29_Laziness ==
    /\ [](InLazy => Len(trace.runs) + Len(lazy.thunks) = Len(trace.enqs))
    /\ [][(InLazy /\ trace'.runs # trace.runs) =>
            /\ Len(lazy.head) = 0 /\ Len(lazy.thunks) > 0
            /\ trace'.runs = Append(trace.runs, Head(lazy.thunks))
            /\ Len(lazy'.thunks) >= Len(lazy.thunks) - 1
            /\ SubSeq(lazy'.thunks, 1, Len(lazy.thunks) - 1) = Tail(lazy.thunks)]_vars
    /\ []((fn = "pull" /\ pc = "idle" /\ Len(trace.delivered) = 1) =>
            /\ trace.delivered[1] = Val(value.t, 0, <<>>)
            /\ value.t = "vec" =>
                  trace.runs = <<>> /\ lazy.thunks = trace.enqs
            /\ value.t = "str" =>
                  /\ Len(trace.runs) = 1 /\ trace.runs[1].k = "push_map"
                  /\ trace.runs[1].it = shrink(Vec(value.kids)))

\* C29 witness: the empty vector pulled from the stream of a vector of
\* three elements, its one producer still queued and none run.
C29_Witness ==
    /\ fn = "pull" /\ pc = "idle"
    /\ value.t = "vec" /\ Len(value.kids) = 3
    /\ trace.delivered = <<Vec(<<>>)>>
    /\ trace.runs = <<>> /\ Len(lazy.thunks) = 1

\* The size of a value: its node count plus its numbers, a measure in Nat.
RECURSIVE weight(_)
RECURSIVE weights(_)
weights(kids) == IF Len(kids) = 0 THEN 0 ELSE weight(Head(kids)) + weights(Tail(kids))

weight(v) == 1 + v.n + weights(v.kids)

\* C28. Minimisation terminates for every predicate: under every closure that
\* is false on the start value, every candidate quick_shrink holds is smaller
\* in weight than the current value, every recursion goes to a smaller value,
\* the number of invocations never exceeds the weight of the start value, and
\* the call returns.
C28_Terminates ==
    /\ [](pc = "shrink" =>
            \A k \in 1..Len(shrinks) : weight(shrinks[k]) < weight(cur))
    /\ [][cur' # cur => weight(cur') < weight(cur)]_vars
    /\ [][hist'.depth # hist.depth => cur' # cur]_vars
    /\ [](hist.depth <= weight(hist.start))
    /\ <>(pc = "done" /\ outcome = "returned" /\ result = cur)

\* C28 witness: a call on a vector of three elements that has returned a
\* vector of one element after three recursions.
C28_Witness ==
    /\ fn = "quick_shrink" /\ pc = "done" /\ outcome = "returned"
    /\ hist.start = Vec(<<SmallN(1), SmallN(0), SmallN(1)>>)
    /\ hist.depth = 4
    /\ result = Vec(<<SmallN(0)>>)
====
